---- MODULE Spec2Model ----
(***************************************************************************)
(* Phi accrual failure detector (src/src/lib.rs).                          *)
(*                                                                         *)
(* Statistics is the record kept behind Detector's tokio RwLock; the       *)
(* callers are tasks that call Detector::insert, Detector::phi and         *)
(* Detector::last_arrived_at.  A step of a task is the code it runs        *)
(* between two lock operations; the body of Statistics::insert, which      *)
(* runs under the write guard, is split at its statements so that a        *)
(* half-updated Statistics exists as a state.                              *)
(*                                                                         *)
(* Time is counted in ticks, TicksPerMs of them to a millisecond, so that  *)
(* num_milliseconds() truncates.  A u64 interval is kept as the i64        *)
(* reading of its 64 bits (x < 0 stands for the u64 value 2^64 + x).       *)
(***************************************************************************)
EXTENDS Integers, Sequences, FiniteSets, TLC

VARIABLES
    arrival_intervals,  \* Statistics.arrival_intervals : Vec<u64>
    last_arrived_at,    \* Statistics.last_arrived_at   : DateTime<Local>, in ticks
    window_length,      \* Statistics.window_length     : u32
    n,                  \* Statistics.n                 : u32
    writer,             \* RwLock: the task holding the write guard, or NoTask
    readers,            \* RwLock: the tasks holding a read guard
    queue,              \* RwLock: the tasks waiting for a guard, first come first
    pc,                 \* per task: the step it is at
    arg,                \* per task: the timestamp argument of its call
    vm,                 \* per task: phi's local (sigma_sq, mu)
    ret,                \* per task: what its last call returned
    env,                \* the callers: the tasks spawned, the spacings (ticks) of
                        \* the heartbeats, the query offsets (ticks), and the
                        \* number of insert calls of the run
    hist                \* history: the timestamps of the insert calls, in lock order

vars == <<arrival_intervals, last_arrived_at, window_length, n, writer, readers,
          queue, pc, arg, vm, ret, env, hist>>

statistics == <<arrival_intervals, last_arrived_at, window_length, n>>
rwlock == <<writer, readers, queue>>

----
\* Bounds of the model.

\* ticks per millisecond (the clock is finer than the millisecond)
TicksPerMs == 2
\* one caller, irregular heartbeats: window lengths 0..MaxWindow
MaxWindow == 3
\* one caller, heartbeats at a constant spacing: window lengths 1..MaxRegularWindow
MaxRegularWindow == 6
\* one caller: window_length + ExtraInserts insert calls
ExtraInserts == 2
\* phi is queried up to MaxElapsed ms after the last recorded arrival
MaxElapsed == 2
\* two callers: window lengths 0..MaxConcWindow and ConcInserts insert calls
MaxConcWindow == 1
ConcInserts == 3

Tasks == {"t1", "t2"}
NoTask == "none"

\* Spacings in ticks: out of order by 1.5 ms, 1 ms, 2.5 ms.
Deltas == {-(TicksPerMs + 1), TicksPerMs, 2 * TicksPerMs + 1}
\* test_constant_phi_with_constant_pings_calculation: Statistics::new(10) and
\* arrivals Duration::milliseconds(10) apart
TestWindow == 10
TestSpacingMs == 10
\* test_variant_mean_and_variance_combo_calculation: expect_vals, the deltas in
\* ms of the arrivals after the first, and the spacing of its phi queries
TestDeltasMs == <<1630, 4421, 1514, 216, 231, 931, 4182, 102, 104, 241, 5132>>
TestQueryStepMs == 250
\* Constant spacings in ticks: 1 ms, and the test's.
RegularDeltas == {TicksPerMs, TestSpacingMs * TicksPerMs}
\* Query times in ticks after the last recorded arrival: at it, a tick later,
\* and whole milliseconds later.
QueryOffsets == {0, 1} \cup {ms * TicksPerMs : ms \in 1..MaxElapsed}
\* Two callers: heartbeats 1 ms apart or 1.5 ms out of order, queries at the
\* last recorded arrival or 1 ms after it.
ConcDeltas == {-(TicksPerMs + 1), TicksPerMs}
ConcOffsets == {0, TicksPerMs}

\* Local::now() at construction: the origin of the model's clock.
ConstructionTime == 0

----
(***************************************************************************)
(* Natural numbers of any size, as little-endian sequences of limbs below  *)
(* Base with no leading zero limb (0 is << >>): the model checker's        *)
(* integers are 32 bits wide, a u64 and an f64 significand are not.        *)
(***************************************************************************)
LimbBits == 15
Base == 2^LimbBits

RECURSIVE BigNorm(_)
BigNorm(a) ==
    IF a = <<>> THEN <<>>
    ELSE IF a[Len(a)] = 0 THEN BigNorm(SubSeq(a, 1, Len(a) - 1)) ELSE a

RECURSIVE BigFromNat(_)
BigFromNat(x) == IF x = 0 THEN <<>> ELSE <<x % Base>> \o BigFromNat(x \div Base)

Limb(a, i) == IF i <= Len(a) THEN a[i] ELSE 0

RECURSIVE BigAddC(_, _, _, _)
BigAddC(a, b, i, c) ==
    IF i > Len(a) /\ i > Len(b) THEN (IF c = 0 THEN <<>> ELSE <<c>>)
    ELSE LET sum == Limb(a, i) + Limb(b, i) + c
         IN  <<sum % Base>> \o BigAddC(a, b, i + 1, sum \div Base)

BigAdd(a, b) == BigAddC(a, b, 1, 0)

\* a - b for a >= b
RECURSIVE BigSubB(_, _, _, _)
BigSubB(a, b, i, borrow) ==
    IF i > Len(a) THEN <<>>
    ELSE LET d == Limb(a, i) - Limb(b, i) - borrow
         IN  IF d < 0 THEN <<d + Base>> \o BigSubB(a, b, i + 1, 1)
                      ELSE <<d>> \o BigSubB(a, b, i + 1, 0)

BigSub(a, b) == BigNorm(BigSubB(a, b, 1, 0))

RECURSIVE BigCmpAt(_, _, _)
BigCmpAt(a, b, i) ==
    IF i = 0 THEN 0
    ELSE IF a[i] > b[i] THEN 1
    ELSE IF a[i] < b[i] THEN -1
    ELSE BigCmpAt(a, b, i - 1)

\* -1, 0, 1 as a < b, a = b, a > b
BigCmp(a, b) ==
    IF Len(a) > Len(b) THEN 1
    ELSE IF Len(a) < Len(b) THEN -1
    ELSE BigCmpAt(a, b, Len(a))

\* a * k for a limb k
RECURSIVE BigMulSmallC(_, _, _, _)
BigMulSmallC(a, k, i, c) ==
    IF i > Len(a) THEN (IF c = 0 THEN <<>> ELSE <<c>>)
    ELSE LET p == a[i] * k + c
         IN  <<p % Base>> \o BigMulSmallC(a, k, i + 1, p \div Base)

BigMulSmall(a, k) == IF k = 0 THEN <<>> ELSE BigMulSmallC(a, k, 1, 0)

BigShlLimbs(a, q) == IF a = <<>> THEN <<>> ELSE [i \in 1..q |-> 0] \o a

RECURSIVE BigMul(_, _)
BigMul(a, b) ==
    IF b = <<>> \/ a = <<>> THEN <<>>
    ELSE BigAdd(BigMulSmall(a, b[1]), BigShlLimbs(BigMul(a, Tail(b)), 1))

\* a * 2^sh
BigShl(a, sh) == BigShlLimbs(BigMulSmall(a, 2^(sh % LimbBits)), sh \div LimbBits)

\* quotient and remainder of a by a limb k > 0, from the top limb down
RECURSIVE BigDivSmallR(_, _, _)
BigDivSmallR(a, k, i) ==
    IF i > Len(a) THEN [q |-> <<>>, r |-> 0]
    ELSE LET hi == BigDivSmallR(a, k, i + 1)
             cur == hi.r * Base + a[i]
         IN  [q |-> <<cur \div k>> \o hi.q, r |-> cur % k]

BigDivSmall(a, k) ==
    LET x == BigDivSmallR(a, k, 1)
    IN  [q |-> BigNorm(x.q), r |-> IF x.r = 0 THEN <<>> ELSE <<x.r>>]

\* floor(a / 2^sh)
BigShr(a, sh) ==
    LET q == sh \div LimbBits
    IN  IF q >= Len(a) THEN <<>>
        ELSE BigDivSmall(SubSeq(a, q + 1, Len(a)), 2^(sh % LimbBits)).q

RECURSIVE SmallBitLen(_)
SmallBitLen(x) == IF x = 0 THEN 0 ELSE 1 + SmallBitLen(x \div 2)

BigBitLen(a) ==
    IF a = <<>> THEN 0 ELSE LimbBits * (Len(a) - 1) + SmallBitLen(a[Len(a)])

\* bit i of a, bit 0 the lowest
BigBit(a, i) == (Limb(a, i \div LimbBits + 1) \div 2^(i % LimbBits)) % 2

\* whether a bit of a below bit sh is set
BigLowNonzero(a, sh) ==
    \/ \E i \in 1..(sh \div LimbBits) : Limb(a, i) # 0
    \/ Limb(a, sh \div LimbBits + 1) % 2^(sh % LimbBits) # 0

RECURSIVE SmallTrailingZeros(_)
SmallTrailingZeros(x) == IF x % 2 = 1 THEN 0 ELSE 1 + SmallTrailingZeros(x \div 2)

\* the number of zero bits below the lowest set bit of a # 0, from limb i on
RECURSIVE BigTrailingZerosFrom(_, _)
BigTrailingZerosFrom(a, i) ==
    IF a[i] # 0 THEN LimbBits * (i - 1) + SmallTrailingZeros(a[i])
    ELSE BigTrailingZerosFrom(a, i + 1)

BigTrailingZeros(a) == BigTrailingZerosFrom(a, 1)

\* Long division, a limb of the quotient at a time (Knuth's algorithm D): the
\* largest q with q * b <= r, for r < b * Base and b's top limb >= Base / 2,
\* is at most two below the estimate from the top limbs.
RECURSIVE BigDigitDown(_, _, _)
BigDigitDown(r, b, q) ==
    IF BigCmp(BigMulSmall(b, q), r) > 0 THEN BigDigitDown(r, b, q - 1) ELSE q

BigDigit(r, b) ==
    IF BigCmp(r, b) < 0 THEN 0
    ELSE LET nb == Len(b)
             est == (Limb(r, nb + 1) * Base + Limb(r, nb)) \div b[nb]
         IN  BigDigitDown(r, b, IF est >= Base THEN Base - 1 ELSE est)

RECURSIVE BigDivLimbsR(_, _, _)
BigDivLimbsR(a, b, i) ==
    IF i > Len(a) THEN [q |-> <<>>, r |-> <<>>]
    ELSE LET hi == BigDivLimbsR(a, b, i + 1)
             r1 == BigNorm(<<a[i]>> \o hi.r)
             d == BigDigit(r1, b)
         IN  [q |-> <<d>> \o hi.q, r |-> BigSub(r1, BigMulSmall(b, d))]

\* quotient and remainder of a by b > 0
BigDivMod(a, b) ==
    IF Len(b) = 1 THEN BigDivSmall(a, b[1])
    ELSE LET sh == LimbBits - SmallBitLen(b[Len(b)])
             x == BigDivLimbsR(BigShl(a, sh), BigShl(b, sh), 1)
         IN  [q |-> BigNorm(x.q), r |-> BigShr(x.r, sh)]

\* floor(sqrt(a)) by Newton's steps down from x >= floor(sqrt(a))
RECURSIVE BigIsqrtFrom(_, _)
BigIsqrtFrom(a, x) ==
    LET y == BigShr(BigAdd(x, BigDivMod(a, x).q), 1)
    IN  IF BigCmp(y, x) >= 0 THEN x ELSE BigIsqrtFrom(a, y)

BigIsqrt(a) ==
    IF a = <<>> THEN <<>>
    ELSE BigIsqrtFrom(a, BigShl(<<1>>, (BigBitLen(a) + 1) \div 2))

----
(***************************************************************************)
(* f64: [s |-> sign bit, m |-> significand, e |-> exponent] stands for     *)
(* (-1)^s * m * 2^e, with m of exactly Precision bits, or m = 0 and e = 0  *)
(* for a zero.  Every operation is the exact result rounded to nearest,    *)
(* ties to even, as IEEE 754 defines it.  The exponent is not bounded:     *)
(* the values of this program stay far from the overflow and underflow     *)
(* thresholds of f64.                                                      *)
(***************************************************************************)
Precision == 53

FZero(sgn) == [s |-> sgn, m |-> <<>>, e |-> 0]

F64FromParts(sgn, m, e) == [s |-> sgn, m |-> m, e |-> e]

\* (-1)^sgn * (M * 2^E, plus a little less than 2^E when sticky) rounded
FRound(sgn, M, E, sticky) ==
    IF M = <<>> THEN FZero(sgn)
    ELSE LET L == BigBitLen(M)
         IN  IF L <= Precision
             THEN F64FromParts(sgn, BigShl(M, Precision - L), E - (Precision - L))
             ELSE LET sh == L - Precision
                      q == BigShr(M, sh)
                      guard == BigBit(M, sh - 1) = 1
                      rest == sticky \/ BigLowNonzero(M, sh - 1)
                      up == guard /\ (rest \/ q[1] % 2 = 1)
                      q1 == IF up THEN BigAdd(q, <<1>>) ELSE q
                  IN  IF BigBitLen(q1) > Precision
                      THEN F64FromParts(sgn, BigShr(q1, 1), E + sh + 1)
                      ELSE F64FromParts(sgn, q1, E + sh)

FIsZero(a) == a.m = <<>>

FNeg(a) == [a EXCEPT !.s = 1 - a.s]

\* a == b of f64 (-0.0 == 0.0)
FEq(a, b) == IF FIsZero(a) THEN FIsZero(b) ELSE a = b

\* a + b
FAdd(a, b) ==
    IF FIsZero(a) /\ FIsZero(b) THEN FZero(IF a.s = 1 /\ b.s = 1 THEN 1 ELSE 0)
    ELSE IF FIsZero(a) THEN b
    ELSE IF FIsZero(b) THEN a
    ELSE LET e == IF a.e < b.e THEN a.e ELSE b.e
             A == BigShl(a.m, a.e - e)
             B == BigShl(b.m, b.e - e)
             c == BigCmp(A, B)
         IN  IF a.s = b.s THEN FRound(a.s, BigAdd(A, B), e, FALSE)
             ELSE IF c = 0 THEN FZero(0)
             ELSE IF c > 0 THEN FRound(a.s, BigSub(A, B), e, FALSE)
             ELSE FRound(b.s, BigSub(B, A), e, FALSE)

\* a - b
FSub(a, b) == FAdd(a, FNeg(b))

\* a * b
FMul(a, b) ==
    LET sgn == (a.s + b.s) % 2
    IN  IF FIsZero(a) \/ FIsZero(b) THEN FZero(sgn)
        ELSE FRound(sgn, BigMul(a.m, b.m), a.e + b.e, FALSE)

\* a / b for b # 0
FDiv(a, b) ==
    LET sgn == (a.s + b.s) % 2
    IN  IF FIsZero(a) THEN FZero(sgn)
        ELSE LET tz == BigTrailingZeros(b.m)
                 dm == BigDivMod(BigShl(a.m, Precision + 3), BigShr(b.m, tz))
             IN  FRound(sgn, dm.q, a.e - (b.e + tz) - (Precision + 3), dm.r # <<>>)

\* a.sqrt() for a >= 0
FSqrt(a) ==
    IF FIsZero(a) THEN a
    ELSE LET k == IF (a.e - (Precision + 4)) % 2 = 0 THEN Precision + 4 ELSE Precision + 5
             M == BigShl(a.m, k)
             r == BigIsqrt(M)
         IN  FRound(0, r, (a.e - k) \div 2, BigMul(r, r) # M)

\* -1, 0, 1 as a < b, a == b, a > b
FCmpMag(a, b) ==
    IF FIsZero(a) THEN (IF FIsZero(b) THEN 0 ELSE -1)
    ELSE IF FIsZero(b) THEN 1
    ELSE IF a.e # b.e THEN (IF a.e > b.e THEN 1 ELSE -1)
    ELSE BigCmp(a.m, b.m)

FCmp(a, b) ==
    IF FIsZero(a) /\ FIsZero(b) THEN 0
    ELSE IF FIsZero(a) THEN (IF b.s = 1 THEN 1 ELSE -1)
    ELSE IF FIsZero(b) THEN (IF a.s = 1 THEN -1 ELSE 1)
    ELSE IF a.s # b.s THEN (IF a.s = 1 THEN -1 ELSE 1)
    ELSE IF a.s = 0 THEN FCmpMag(a, b) ELSE FCmpMag(b, a)

\* x as f64 for an i64 x (|x| < 2^31 here)
I64ToF64(x) == IF x < 0 THEN FRound(1, BigFromNat(-x), 0, FALSE)
                        ELSE FRound(0, BigFromNat(x), 0, FALSE)

\* v as f64 for a u64 v, kept as the i64 reading of its bits
U64ToF64(v) ==
    IF v < 0 THEN FRound(0, BigSub(BigShl(<<1>>, 64), BigFromNat(-v)), 0, FALSE)
    ELSE FRound(0, BigFromNat(v), 0, FALSE)

\* len as f64 for a usize
UsizeToF64(len) == FRound(0, BigFromNat(len), 0, FALSE)

----
(***************************************************************************)
(* The arithmetic of the detector.                                         *)
(***************************************************************************)

\* Duration::num_milliseconds of a difference of d ticks: whole milliseconds,
\* truncated towards zero
NumMilliseconds(d) == IF d >= 0 THEN d \div TicksPerMs ELSE -((-d) \div TicksPerMs)

\* arrived_at.sub(last_arrived_at).num_milliseconds() as u64: the cast keeps
\* the 64 bits, so the model keeps the i64
ArrivalInterval(arrived_at, last) == NumMilliseconds(arrived_at - last)

\* (mutant) the eviction test against the arrival count
EvictionDueAtCount(cnt, wl) == cnt = wl

\* (mutant) the eviction test one arrival late
EvictionDueLate(cnt, wl) == cnt - 1 = wl + 1

\* the eviction test of Statistics::insert
EvictionDue(cnt, wl) == cnt - 1 = wl

\* the loop of mean_with_stats from element i on, mean so far in acc
RECURSIVE MeanLoop(_, _, _)
MeanLoop(intervals, i, acc) ==
    IF i > Len(intervals) THEN acc
    ELSE MeanLoop(intervals, i + 1,
                  FAdd(acc, FDiv(U64ToF64(intervals[i]), UsizeToF64(Len(intervals)))))

mean_with_stats(intervals) == MeanLoop(intervals, 1, FZero(0))

\* the loop of variance_and_mean from element i on, variance so far in acc
RECURSIVE VarianceLoop(_, _, _, _)
VarianceLoop(intervals, mu, i, acc) ==
    IF i > Len(intervals) THEN acc
    ELSE LET dev == FSub(U64ToF64(intervals[i]), mu)
             val == FDiv(FMul(dev, dev), UsizeToF64(Len(intervals)))
         IN  VarianceLoop(intervals, mu, i + 1, FAdd(acc, val))

\* (mutant) the sample variance: the denominator len - 1
variance_and_mean_sample(intervals) ==
    LET mu == mean_with_stats(intervals)
        sv == VarianceLoop(intervals, mu, 1, FZero(0))
    IN  [sigma_sq |-> IF Len(intervals) > 1
                      THEN FDiv(FMul(sv, UsizeToF64(Len(intervals))),
                                UsizeToF64(Len(intervals) - 1))
                      ELSE sv,
         mu |-> mu]

\* (variance, mean) of the window
variance_and_mean(intervals) ==
    LET mu == mean_with_stats(intervals)
    IN  [sigma_sq |-> VarianceLoop(intervals, mu, 1, FZero(0)), mu |-> mu]

FOne == I64ToF64(1)
FHalf == FDiv(FOne, I64ToF64(2))

\* A result of libm is either an f64 the model knows exactly, Known(v), or the
\* value libm's polynomials give for the argument z, which the model does
\* not compute: Unknown(z).
Known(v) == [kind |-> "f64", v |-> v]
Unknown(z) == [kind |-> "erf", v |-> z]

\* libm::erf(z): erf(0) = 0, and 1 - 2^-1022 = 1 with the sign of z from
\* |z| >= 6 on; in between, the polynomials
Erf(z) ==
    IF FIsZero(z) THEN Known(z)
    ELSE IF FCmpMag(z, I64ToF64(6)) >= 0 THEN Known(F64FromParts(z.s, FOne.m, FOne.e))
    ELSE Unknown(z)

\* (mutant) a point mass at mu as a distribution function: 1 from mu on
normal_cdf_from_mu_on(t, mu, sigma) ==
    IF FIsZero(sigma)
    THEN (IF FCmp(t, mu) >= 0 THEN Known(FOne) ELSE Known(FZero(0)))
    ELSE LET z == FDiv(FSub(t, mu), sigma)
             e == Erf(z)
         IN  IF e.kind = "f64" THEN Known(FAdd(FHalf, FMul(FHalf, e.v)))
                               ELSE Unknown(z)

normal_cdf(t, mu, sigma) ==
    IF FIsZero(sigma)
    THEN (IF FEq(t, mu) THEN Known(FOne) ELSE Known(FZero(0)))
    ELSE LET z == FDiv(FSub(t, mu), sigma)
             e == Erf(z)
         IN  IF e.kind = "f64" THEN Known(FAdd(FHalf, FMul(FHalf, e.v)))
                               ELSE Unknown(z)

\* The value of phi: "inf" is +infinity; "zero" is -0.0 (== 0.0); "log" is
\* -log10(x) for the f64 x in (0, 1) the record carries, positive and finite;
\* "erf" is -log10(0.5 - 0.5 * erf(x)) for the x, 0 < |x| < 6, it carries.
PhiInf == [kind |-> "inf", x |-> FZero(0)]
PhiZero == [kind |-> "zero", x |-> FZero(0)]
PhiLog(x) == [kind |-> "log", x |-> x]
PhiErf(z) == [kind |-> "erf", x |-> z]

\* -log10(1. - ft): log10(0) = -infinity and log10(1) = 0
NegLog10Complement(ft) ==
    IF ft.kind = "f64"
    THEN LET d == FSub(FOne, ft.v)
         IN  IF FIsZero(d) THEN PhiInf
             ELSE IF FEq(d, FOne) THEN PhiZero
             ELSE PhiLog(d)
    ELSE PhiErf(ft.v)

\* phi(t), from the locals (sigma_sq, mu) and the last_arrived_at it reads
phi_value(t, sigma_sq, mu, last) ==
    LET sigma == FSqrt(sigma_sq)
        ft == normal_cdf(I64ToF64(NumMilliseconds(t - last)), mu, sigma)
    IN  NegLog10Complement(ft)

----
(***************************************************************************)
(* tokio::sync::RwLock: fair, first come first served.  A request is       *)
(* granted at once when no guard conflicts with it and nobody waits;       *)
(* otherwise the task queues, and a release hands the lock to the head of  *)
(* the queue: to one writer, or to the readers up to the next writer.      *)
(***************************************************************************)
WantsWrite(t) == pc[t] = "ins_first"

RECURSIVE Grant(_, _, _)
Grant(w, rs, q) ==
    IF q = <<>> \/ w # NoTask THEN <<w, rs, q>>
    ELSE IF WantsWrite(Head(q))
         THEN (IF rs = {} THEN <<Head(q), rs, Tail(q)>> ELSE <<w, rs, q>>)
         ELSE Grant(w, rs \cup {Head(q)}, Tail(q))

\* (mutant) a write lock that does not wait for the readers
WriteFreeDespiteReaders == writer = NoTask /\ queue = <<>>

WriteFree == writer = NoTask /\ readers = {} /\ queue = <<>>
ReadFree == writer = NoTask /\ queue = <<>>

\* self.statistics.write().await
AcquireWrite(t) ==
    IF WriteFree
    THEN writer' = t /\ UNCHANGED <<readers, queue>>
    ELSE queue' = Append(queue, t) /\ UNCHANGED <<writer, readers>>

\* self.statistics.read().await
AcquireRead(t) ==
    IF ReadFree
    THEN readers' = readers \cup {t} /\ UNCHANGED <<writer, queue>>
    ELSE queue' = Append(queue, t) /\ UNCHANGED <<writer, readers>>

\* the write guard is dropped
ReleaseWrite(t) ==
    LET g == Grant(NoTask, readers, queue)
    IN  writer' = g[1] /\ readers' = g[2] /\ queue' = g[3]

\* a read guard is dropped
ReleaseRead(t) ==
    LET g == Grant(writer, readers \ {t}, queue)
    IN  writer' = g[1] /\ readers' = g[2] /\ queue' = g[3]

HoldsWrite(t) == writer = t
HoldsRead(t) == t \in readers

----
(***************************************************************************)
(* The tasks.  pc: "idle"; "ins_first", "ins_push", "ins_commit" in        *)
(* Detector::insert; "phi_vm", "phi_mid", "phi_last" in Detector::phi;     *)
(* "last_read" in Detector::last_arrived_at; "done" with the result in     *)
(* ret.  A task in the queue waits for the guard its pc needs.             *)
(***************************************************************************)
NoArg == 0
NoLocal == [sigma_sq |-> FZero(0), mu |-> FZero(0), seen |-> <<>>]
\* the fields of a result that its kind does not use
NoVal == [phi |-> PhiZero, t |-> NoArg, last |-> NoArg, mu |-> FZero(0),
          sigma_sq |-> FZero(0), consistent |-> TRUE]
NoRet == [kind |-> "none", val |-> NoVal]

InInsert(t) == pc[t] \in {"ins_first", "ins_push", "ins_commit"}

\* insert calls made so far
InsertCalls == Len(hist) + Cardinality({t \in Tasks : InInsert(t)})

Snapshot == <<arrival_intervals, last_arrived_at, n>>

Finish(t, r) ==
    /\ pc' = [pc EXCEPT ![t] = "done"]
    /\ arg' = [arg EXCEPT ![t] = NoArg]
    /\ vm' = [vm EXCEPT ![t] = NoLocal]
    /\ ret' = [ret EXCEPT ![t] = r]

Goto(t, label) == pc' = [pc EXCEPT ![t] = label] /\ UNCHANGED <<arg, vm, ret>>

\* the deltas the next insert call draws its timestamp from: the next of the
\* script, if the caller follows one
NextDeltas ==
    IF env.script = <<>> THEN env.deltas ELSE {env.script[InsertCalls + 1]}

\* Detector::insert is called: the write lock is requested
CallInsert(t) ==
    /\ t \in env.active
    /\ pc[t] = "idle"
    /\ InsertCalls < env.inserts
    /\ \E d \in NextDeltas : arg' = [arg EXCEPT ![t] = last_arrived_at + d]
    /\ pc' = [pc EXCEPT ![t] = "ins_first"]
    /\ AcquireWrite(t)
    /\ UNCHANGED <<statistics, vm, ret, env, hist>>

\* (mutant) the first arrival is not counted
InsertBootstrapUncounted(t) ==
    /\ pc[t] = "ins_first" /\ HoldsWrite(t)
    /\ n = 0
    /\ last_arrived_at' = arg[t]
    /\ hist' = Append(hist, arg[t])
    /\ ReleaseWrite(t)
    /\ Finish(t, [kind |-> "ok", val |-> NoVal])
    /\ UNCHANGED <<arrival_intervals, window_length, n, env>>

\* (mutant) the first arrival records an interval since the construction
InsertBootstrapRecording(t) ==
    /\ pc[t] = "ins_first" /\ HoldsWrite(t)
    /\ n = 0
    /\ arrival_intervals' =
           Append(arrival_intervals, ArrivalInterval(arg[t], last_arrived_at))
    /\ last_arrived_at' = arg[t]
    /\ n' = n + 1
    /\ hist' = Append(hist, arg[t])
    /\ ReleaseWrite(t)
    /\ Finish(t, [kind |-> "ok", val |-> NoVal])
    /\ UNCHANGED <<window_length, env>>

\* Statistics::insert, the first arrival
InsertBootstrap(t) ==
    /\ pc[t] = "ins_first" /\ HoldsWrite(t)
    /\ n = 0
    /\ last_arrived_at' = arg[t]
    /\ n' = n + 1
    /\ hist' = Append(hist, arg[t])
    /\ ReleaseWrite(t)
    /\ Finish(t, [kind |-> "ok", val |-> NoVal])
    /\ UNCHANGED <<arrival_intervals, window_length, env>>

\* Statistics::insert, the eviction; Vec::remove(0) of an empty Vec panics,
\* and the unwinding drops the write guard
InsertEvict(t) ==
    /\ pc[t] = "ins_first" /\ HoldsWrite(t)
    /\ n # 0
    /\ IF EvictionDue(n, window_length)
       THEN IF arrival_intervals = <<>>
            THEN /\ hist' = Append(hist, arg[t])
                 /\ ReleaseWrite(t)
                 /\ Finish(t, [kind |-> "panic", val |-> NoVal])
                 /\ UNCHANGED <<statistics, env>>
            ELSE /\ arrival_intervals' = Tail(arrival_intervals)
                 /\ n' = n - 1
                 /\ Goto(t, "ins_push")
                 /\ UNCHANGED <<last_arrived_at, window_length, rwlock, env, hist>>
       ELSE /\ Goto(t, "ins_push")
            /\ UNCHANGED <<statistics, rwlock, env, hist>>

\* Statistics::insert, the new interval
InsertPush(t) ==
    /\ pc[t] = "ins_push" /\ HoldsWrite(t)
    /\ IF n # 0
       THEN arrival_intervals' =
                Append(arrival_intervals, ArrivalInterval(arg[t], last_arrived_at))
       ELSE UNCHANGED arrival_intervals
    /\ Goto(t, "ins_commit")
    /\ UNCHANGED <<last_arrived_at, window_length, n, rwlock, env, hist>>

\* Statistics::insert, the bookkeeping; Detector::insert returns Ok(())
InsertCommit(t) ==
    /\ pc[t] = "ins_commit" /\ HoldsWrite(t)
    /\ last_arrived_at' = arg[t]
    /\ n' = n + 1
    /\ hist' = Append(hist, arg[t])
    /\ ReleaseWrite(t)
    /\ Finish(t, [kind |-> "ok", val |-> NoVal])
    /\ UNCHANGED <<arrival_intervals, window_length, env>>

\* Detector::phi is called: variance_and_mean requests the read lock
CallPhi(t) ==
    /\ t \in env.active
    /\ pc[t] = "idle"
    /\ \E off \in env.offsets : arg' = [arg EXCEPT ![t] = last_arrived_at + off]
    /\ pc' = [pc EXCEPT ![t] = "phi_vm"]
    /\ AcquireRead(t)
    /\ UNCHANGED <<statistics, vm, ret, env, hist>>

\* (mutant) variance_and_mean's read guard is kept until phi returns
PhiVarianceAndMeanHolding(t) ==
    /\ pc[t] = "phi_vm" /\ HoldsRead(t)
    /\ LET r == variance_and_mean(arrival_intervals)
       IN  vm' = [vm EXCEPT ![t] = [sigma_sq |-> r.sigma_sq, mu |-> r.mu,
                                    seen |-> Snapshot]]
    /\ pc' = [pc EXCEPT ![t] = "phi_mid"]
    /\ UNCHANGED <<statistics, rwlock, arg, ret, env, hist>>

\* variance_and_mean under its read guard, dropped as it returns
PhiVarianceAndMean(t) ==
    /\ pc[t] = "phi_vm" /\ HoldsRead(t)
    /\ LET r == variance_and_mean(arrival_intervals)
       IN  vm' = [vm EXCEPT ![t] = [sigma_sq |-> r.sigma_sq, mu |-> r.mu,
                                    seen |-> Snapshot]]
    /\ pc' = [pc EXCEPT ![t] = "phi_mid"]
    /\ ReleaseRead(t)
    /\ UNCHANGED <<statistics, arg, ret, env, hist>>

\* phi calls self.last_arrived_at(): the read lock is requested again
PhiCallLast(t) ==
    /\ pc[t] = "phi_mid"
    /\ Goto(t, "phi_last")
    /\ AcquireRead(t)
    /\ UNCHANGED <<statistics, env, hist>>

\* (mutant) phi records the instant of the query as the last arrival
PhiReturnTouching(t) ==
    /\ pc[t] = "phi_last" /\ HoldsRead(t)
    /\ Finish(t, [kind |-> "phi",
                  val |-> [phi |-> phi_value(arg[t], vm[t].sigma_sq, vm[t].mu,
                                             last_arrived_at),
                           t |-> arg[t],
                           last |-> last_arrived_at,
                           mu |-> vm[t].mu,
                           sigma_sq |-> vm[t].sigma_sq,
                           consistent |-> vm[t].seen = Snapshot]])
    /\ ReleaseRead(t)
    /\ last_arrived_at' = arg[t]
    /\ UNCHANGED <<arrival_intervals, window_length, n, env, hist>>

\* last_arrived_at is read under the second guard; phi returns
PhiReturn(t) ==
    /\ pc[t] = "phi_last" /\ HoldsRead(t)
    /\ Finish(t, [kind |-> "phi",
                  val |-> [phi |-> phi_value(arg[t], vm[t].sigma_sq, vm[t].mu,
                                             last_arrived_at),
                           t |-> arg[t],
                           last |-> last_arrived_at,
                           mu |-> vm[t].mu,
                           sigma_sq |-> vm[t].sigma_sq,
                           consistent |-> vm[t].seen = Snapshot]])
    /\ ReleaseRead(t)
    /\ UNCHANGED <<statistics, env, hist>>

\* Detector::last_arrived_at is called
CallLast(t) ==
    /\ t \in env.active
    /\ pc[t] = "idle"
    /\ Goto(t, "last_read")
    /\ AcquireRead(t)
    /\ UNCHANGED <<statistics, env, hist>>

\* Detector::last_arrived_at reads under its guard and returns
LastReturn(t) ==
    /\ pc[t] = "last_read" /\ HoldsRead(t)
    /\ Finish(t, [kind |-> "time", val |-> [NoVal EXCEPT !.last = last_arrived_at]])
    /\ ReleaseRead(t)
    /\ UNCHANGED <<statistics, env, hist>>

\* the caller takes the result and is free to call again
Return(t) ==
    /\ pc[t] = "done"
    /\ pc' = [pc EXCEPT ![t] = "idle"]
    /\ ret' = [ret EXCEPT ![t] = NoRet]
    /\ UNCHANGED <<statistics, rwlock, arg, vm, env, hist>>

\* Detector::new(window_length)
New(wl) ==
    /\ arrival_intervals = <<>>
    /\ last_arrived_at = ConstructionTime
    /\ window_length = wl
    /\ n = 0
    /\ writer = NoTask
    /\ readers = {}
    /\ queue = <<>>
    /\ pc = [t \in Tasks |-> "idle"]
    /\ arg = [t \in Tasks |-> NoArg]
    /\ vm = [t \in Tasks |-> NoLocal]
    /\ ret = [t \in Tasks |-> NoRet]
    /\ hist = <<>>

\* the test's arrivals in ticks: the first one a tick after the construction
TestScript == <<1>> \o [i \in 1..Len(TestDeltasMs) |-> TestDeltasMs[i] * TicksPerMs]

\* One caller; the heartbeats are irregular, at a constant spacing, or the test's.
Init ==
    \/ \E wl \in 0..MaxWindow :
          /\ New(wl)
          /\ env = [active |-> {"t1"}, deltas |-> Deltas, offsets |-> QueryOffsets,
                    inserts |-> wl + ExtraInserts, script |-> <<>>]
    \/ \E wl \in (1..MaxRegularWindow) \cup {TestWindow}, d \in RegularDeltas :
          /\ New(wl)
          /\ env = [active |-> {"t1"}, deltas |-> {d}, offsets |-> {0, 1, d, 2 * d},
                    inserts |-> wl + ExtraInserts, script |-> <<>>]
    \/ /\ New(TestWindow)
       /\ env = [active |-> {"t1"}, deltas |-> {},
                 offsets |-> {0, TestQueryStepMs * TicksPerMs,
                              2 * TestQueryStepMs * TicksPerMs},
                 inserts |-> Len(TestScript), script |-> TestScript]

\* Two concurrent callers.
InitConc ==
    \E wl \in 0..MaxConcWindow :
        /\ New(wl)
        /\ env = [active |-> Tasks, deltas |-> ConcDeltas, offsets |-> ConcOffsets,
                  inserts |-> ConcInserts, script |-> <<>>]

Next ==
    \E t \in Tasks :
        \/ CallInsert(t)
        \/ InsertBootstrap(t)
        \/ InsertEvict(t)
        \/ InsertPush(t)
        \/ InsertCommit(t)
        \/ CallPhi(t)
        \/ PhiVarianceAndMean(t)
        \/ PhiCallLast(t)
        \/ PhiReturn(t)
        \/ CallLast(t)
        \/ LastReturn(t)
        \/ Return(t)

Spec == Init /\ [][Next]_vars

SpecConc == InitConc /\ [][Next]_vars

\* a step inside a call: the runtime polls every task that is ready, and the
\* lock serves its waiters in order
Progress(t) ==
    \/ InsertBootstrap(t)
    \/ InsertEvict(t)
    \/ InsertPush(t)
    \/ InsertCommit(t)
    \/ PhiVarianceAndMean(t)
    \/ PhiCallLast(t)
    \/ PhiReturn(t)
    \/ LastReturn(t)

\* task t is inside a call and does not wait for the lock: a step of
\* Progress(t) is possible
Ready(t) ==
    \/ pc[t] \in {"ins_first", "ins_push", "ins_commit"} /\ HoldsWrite(t)
    \/ pc[t] \in {"phi_vm", "phi_last", "last_read"} /\ HoldsRead(t)
    \/ pc[t] = "phi_mid"

Labels == {"idle", "ins_first", "ins_push", "ins_commit", "phi_vm", "phi_mid",
           "phi_last", "last_read", "done"}

\* the runtime polls the ready task t, which moves on
Poll(t) ==
    /\ Ready(t)
    /\ \E l \in Labels \ {pc[t]} : pc' = [pc EXCEPT ![t] = l]

\* Two concurrent callers on a runtime that keeps polling ready tasks.
SpecLive == InitConc /\ [][Next]_vars /\ \A t \in Tasks : WF_pc(Poll(t))

----
(***************************************************************************)
(* The claims.                                                             *)
(***************************************************************************)

\* no insert is part-way through its changes to Statistics
Quiet == \A t \in Tasks : pc[t] \notin {"ins_push", "ins_commit"}

Increasing(h) == \A i \in 1..(Len(h) - 1) : h[i] < h[i + 1]

\* the window_length most recent inter-arrival deltas of hist, in ms, oldest first
RecentDeltas ==
    [i \in 1..window_length |->
        (hist[Len(hist) - window_length + i] - hist[Len(hist) - window_length + i - 1])
            \div TicksPerMs]

\* C1: after k > window_length inserts with increasing timestamps the window
\* holds exactly the window_length most recent inter-arrival deltas, oldest first.
C1_WindowHoldsRecent ==
    (Quiet /\ Len(hist) > window_length /\ Increasing(hist))
        => arrival_intervals = RecentDeltas

\* C1 witness: a window of two or more different deltas after an eviction
C1_Witness ==
    /\ Quiet /\ Increasing(hist)
    /\ window_length >= 2
    /\ Len(hist) = window_length + 2
    /\ arrival_intervals[1] # arrival_intervals[2]

\* C2: in every reachable state 0 <= len(arrival_intervals) <= window_length.
C2_WindowBounded ==
    Len(arrival_intervals) >= 0 /\ Len(arrival_intervals) <= window_length

\* C2 witness: a full window after an insert that had to evict
C2_Witness ==
    /\ Quiet
    /\ window_length >= 1
    /\ Len(hist) = window_length + 2
    /\ Len(arrival_intervals) = window_length

\* C3: phi combines a (variance, mean) pair and a last_arrived_at read from
\* the same Statistics state, in every interleaving with concurrent inserts.
C3_PhiSnapshot ==
    \A t \in Tasks : ret[t].kind = "phi" => ret[t].val.consistent

\* C4: no task that holds a guard finds Statistics part-way through another
\* task's insert, and the window a reader sees is at most window_length long.
C4_InsertAtomic ==
    /\ \A t \in Tasks :
          (HoldsRead(t) \/ HoldsWrite(t))
              => \A u \in Tasks \ {t} : pc[u] \notin {"ins_push", "ins_commit"}
    /\ readers # {} => Len(arrival_intervals) <= window_length

\* C4 witness: a query waits for the lock while an insert has evicted from a
\* full window and not yet appended
C4_Witness ==
    \E t, u \in Tasks :
        /\ pc[u] = "ins_push" /\ Len(arrival_intervals) < window_length
        /\ pc[t] \in {"phi_vm", "phi_last", "last_read"}
        /\ \E i \in 1..Len(queue) : queue[i] = t

\* C5: last_arrived_at is the timestamp passed to the most recent insert call,
\* or the construction time if there was none.
C5_LastIsMostRecent ==
    Quiet => last_arrived_at =
                 (IF hist = <<>> THEN ConstructionTime ELSE hist[Len(hist)])

\* C9: with window_length = 0 every insert call completes normally and the
\* window stays empty.
C9_ZeroWindowNoError ==
    window_length = 0
        => /\ \A t \in Tasks : ret[t].kind # "panic"
           /\ arrival_intervals = <<>>

\* C10: after exactly one insert(ts) the window is empty, n = 1, the mean and
\* the variance are 0 and last_arrived_at = ts.
C10_Bootstrap ==
    (Len(hist) = 1 /\ \A t \in Tasks : ~InInsert(t))
        => /\ arrival_intervals = <<>>
           /\ n = 1
           /\ last_arrived_at = hist[1]
           /\ \A t \in Tasks :
                 pc[t] = "phi_mid"
                     => FIsZero(vm[t].mu) /\ FIsZero(vm[t].sigma_sq)

\* C10 witness: phi has computed the mean and the variance after one insert
C10_Witness ==
    /\ Len(hist) = 1
    /\ pc["t1"] = "phi_mid"
    /\ vm["t1"].seen = <<(<<>>), hist[1], 1>>

\* Detector::phi at last_arrived_at + off when no insert interleaves
PhiAt(off) ==
    LET r == variance_and_mean(arrival_intervals)
    IN  phi_value(last_arrived_at + off, r.sigma_sq, r.mu, last_arrived_at)

\* The order of phi values: -0.0 below every -log10(x), 0 < x < 1, below
\* +infinity; -log10(0.5 - 0.5 * erf(z)) grows with z, and "log" arises from
\* erf(0) only.
PhiRank(p) == CASE p.kind = "zero" -> 0 [] p.kind = "inf" -> 2 [] OTHER -> 1
PhiZ(p) == IF p.kind = "erf" THEN p.x ELSE FZero(0)
PhiLeq(p, q) ==
    \/ PhiRank(p) < PhiRank(q)
    \/ /\ PhiRank(p) = PhiRank(q)
       /\ PhiRank(p) = 1 => FCmp(PhiZ(p), PhiZ(q)) <= 0

\* whole milliseconds from last to t, as Detector::phi passes them to normal_cdf
ElapsedMs(t, last) == I64ToF64((t - last) \div TicksPerMs)

\* C6: for a fixed window, phi(t1) <= phi(t2) whenever t2 is later than t1 and
\* both elapsed times are at or beyond the window's mean, zero variance included.
C6_MonotonicSuspicion ==
    (Quiet /\ arrival_intervals # <<>>) =>
        \A o1, o2 \in env.offsets :
            (/\ o1 < o2
             /\ FCmp(ElapsedMs(o1, 0), variance_and_mean(arrival_intervals).mu) >= 0)
                => PhiLeq(PhiAt(o1), PhiAt(o2))

\* every interval of the non-empty window is the same
AllIdentical ==
    /\ arrival_intervals # <<>>
    /\ \A i \in 1..Len(arrival_intervals) : arrival_intervals[i] = arrival_intervals[1]

TestArrivals ==
    /\ window_length = TestWindow
    /\ Len(hist) = TestWindow + 1
    /\ \A i \in 1..TestWindow : hist[i + 1] - hist[i] = TestSpacingMs * TicksPerMs

SpacedBy(d) ==
    /\ window_length >= 1
    /\ Len(hist) = window_length + 1
    /\ \A i \in 1..window_length : hist[i + 1] - hist[i] = d * TicksPerMs

\* C8: after W + 1 inserts d ms apart, d > 0 and W >= 1, the mean is d, the
\* variance is 0 and phi 2d ms after the last arrival is 0; and with zero
\* variance phi is 0 wherever the elapsed time differs from the mean.
C8_ConstantSpacing ==
    \A t \in Tasks : \A d \in 1..TestSpacingMs :
        (ret[t].kind = "phi" /\ ret[t].val.consistent /\ SpacedBy(d))
            => LET v == ret[t].val
               IN  /\ FEq(v.mu, I64ToF64(d))
                   /\ FIsZero(v.sigma_sq)
                   /\ v.t - v.last = 2 * d * TicksPerMs => v.phi.kind = "zero"
                   /\ (FIsZero(v.sigma_sq) /\ ~FEq(ElapsedMs(v.t, v.last), v.mu))
                         => v.phi.kind = "zero"

\* the u64 an interval of the window holds, as a natural number
U64Big(v) == IF v < 0 THEN BigSub(BigShl(<<1>>, 64), BigFromNat(-v)) ELSE BigFromNat(v)

\* the sum of the intervals from i on, and of their squares
RECURSIVE SumFrom(_, _)
SumFrom(w, i) == IF i > Len(w) THEN <<>> ELSE BigAdd(U64Big(w[i]), SumFrom(w, i + 1))
RECURSIVE SumSqFrom(_, _)
SumSqFrom(w, i) ==
    IF i > Len(w) THEN <<>>
    ELSE BigAdd(BigMul(U64Big(w[i]), U64Big(w[i])), SumSqFrom(w, i + 1))

BigAbsDiff(a, b) == IF BigCmp(a, b) >= 0 THEN BigSub(a, b) ELSE BigSub(b, a)

\* |f - A / B| <= (T / B) / 2^bits for an f64 f >= 0 and naturals A, B, T
Within(f, A, B, T, bits) ==
    /\ f.s = 0 \/ FIsZero(f)
    /\ LET up == IF f.e > 0 THEN f.e ELSE 0
           down == IF f.e < 0 THEN -f.e ELSE 0
           X == BigShl(BigMul(f.m, B), up)
       IN  BigCmp(BigShl(BigAbsDiff(X, BigShl(A, down)), bits), BigShl(T, down)) <= 0

\* f is the arithmetic mean of the window w, to 45 bits of the mean
IsMeanOf(f, w) ==
    Within(f, SumFrom(w, 1), BigFromNat(Len(w)), SumFrom(w, 1), 45)

\* f is the population variance of the window w, to 40 bits of the mean square
IsVarianceOf(f, w) ==
    LET len == BigFromNat(Len(w))
        S == SumFrom(w, 1)
        Q == SumSqFrom(w, 1)
    IN  Within(f, BigSub(BigMul(len, Q), BigMul(S, S)), BigMul(len, len),
               BigMul(len, Q), 40)

\* all of the test's arrivals have been inserted
TestVariantDone == env.script # <<>> /\ Len(hist) = Len(env.script)

\* C11: the mean and the variance are the arithmetic mean and the population
\* variance (same denominator len) of exactly the intervals the window
\* retains; after the test's arrivals with window length 10 they are 1707.4
\* and 3755791.64 to two decimals, the values over the last 10 deltas.
C11_MeanAndVariance ==
    \A t \in Tasks :
        (pc[t] = "phi_mid" /\ vm[t].seen[1] # <<>>)
            => /\ IsMeanOf(vm[t].mu, vm[t].seen[1])
               /\ IsVarianceOf(vm[t].sigma_sq, vm[t].seen[1])
               /\ TestVariantDone
                    => /\ Within(vm[t].mu, BigFromNat(17074), BigFromNat(10),
                                 BigFromNat(1), 10)
                       /\ Within(vm[t].sigma_sq, BigFromNat(375579164),
                                 BigFromNat(100), BigFromNat(1), 10)

\* C11 witness: the mean and the variance of the test's last 10 deltas, the
\* first delta evicted
C11_Witness ==
    /\ TestVariantDone
    /\ pc["t1"] = "phi_mid"
    /\ Len(vm["t1"].seen[1]) = TestWindow
    /\ vm["t1"].seen[1][1] = TestDeltasMs[2]

\* task t takes a step of phi or of last_arrived_at
QueryStep(t) ==
    \/ pc[t] = "idle" /\ pc'[t] \in {"phi_vm", "last_read"}
    \/ pc[t] \in {"phi_vm", "phi_mid", "phi_last", "last_read"} /\ pc'[t] # pc[t]

\* the result a query has returned is the result of the same call made now
SameAgain ==
    \A t \in Tasks :
        /\ ret[t].kind = "phi"
              => ret[t].val.phi = PhiAt(ret[t].val.t - last_arrived_at)
        /\ ret[t].kind = "time" => ret[t].val.last = last_arrived_at

\* C12: phi and last_arrived_at leave arrival_intervals, last_arrived_at, n and
\* window_length unchanged, and with no insert in between the same call
\* returns the same result again.
C12_QueriesReadOnly ==
    /\ []SameAgain
    /\ [][\A t \in Tasks : QueryStep(t) => statistics' = statistics]_vars

\* C12 witness: phi has returned a finite value from a window with content
C12_Witness ==
    /\ pc["t1"] = "done"
    /\ ret["t1"].kind = "phi"
    /\ ret["t1"].val.phi.kind = "erf"
    /\ Len(arrival_intervals) >= 2

\* C13: with window_length >= 1 every call of insert, phi and last_arrived_at,
\* in every interleaving, ends with a success result: no panic in the eviction
\* and no division on an empty window.
C13_NoAbort ==
    window_length >= 1
        => \A t \in Tasks :
              /\ ret[t].kind # "panic"
              /\ pc[t] = "done" => ret[t].kind \in {"ok", "phi", "time"}
              /\ (pc[t] = "phi_mid" /\ vm[t].seen[1] = <<>>)
                    => FIsZero(vm[t].mu) /\ FIsZero(vm[t].sigma_sq)

\* C13 witness: with two callers an insert that evicted has returned Ok while
\* the other caller is inside a query
C13_Witness ==
    /\ window_length >= 1
    /\ Len(hist) = window_length + 2
    /\ \E t, u \in Tasks :
          /\ pc[t] = "done" /\ ret[t].kind = "ok"
          /\ pc[u] \in {"phi_vm", "phi_mid", "phi_last", "last_read"}

\* C14: n = 0 exactly before the first insert; after any insert, evictions
\* and their decrement of n included, n >= 1, so only the very first insert
\* takes the bootstrap branch.
C14_CounterPositive ==
    /\ n >= 0
    /\ n = 0 <=> hist = <<>>
    /\ \A t \in Tasks : (pc[t] \in {"ins_push", "ins_commit"}) => n >= 1

\* C14 witness: an insert has evicted and decremented n, and n is still positive
C14_Witness ==
    /\ window_length >= 1
    /\ pc["t1"] = "ins_push"
    /\ Len(arrival_intervals) = window_length - 1
    /\ n = window_length

Abs(x) == IF x < 0 THEN -x ELSE x

\* C15: every insert after the first appends the non-negative magnitude of
\* (arrived_at - previous last_arrived_at) in ms, also when arrived_at is
\* earlier than last_arrived_at, and sets last_arrived_at to arrived_at.
C15_IntervalMagnitude ==
    (Quiet /\ window_length >= 1 /\ Len(hist) >= 2)
        => /\ arrival_intervals # <<>>
           /\ U64Big(arrival_intervals[Len(arrival_intervals)])
                 = BigFromNat(Abs(hist[Len(hist)] - hist[Len(hist) - 1]) \div TicksPerMs)
           /\ last_arrived_at = hist[Len(hist)]

Min(a, b) == IF a < b THEN a ELSE b

\* C16: for window_length W >= 1, after k >= 1 inserts n = min(k, W + 1) and
\* len(arrival_intervals) = n - 1 = min(k - 1, W); an eviction removes exactly
\* one interval, and n # 0 holds at the guard before the push.
C16_Bookkeeping ==
    window_length >= 1 =>
        /\ (Quiet /\ Len(hist) >= 1)
              => /\ n = Min(Len(hist), window_length + 1)
                 /\ Len(arrival_intervals) = n - 1
                 /\ Len(arrival_intervals) = Min(Len(hist) - 1, window_length)
        /\ \A t \in Tasks :
              /\ pc[t] = "ins_push"
                    => /\ n # 0
                       /\ Len(arrival_intervals) = n - 1
                       /\ Len(arrival_intervals) = Min(Len(hist) - 1, window_length - 1)
              /\ pc[t] = "ins_commit"
                    => Len(arrival_intervals) = n

\* C16 witness: a second insert into a full window has completed
C16_Witness ==
    /\ Quiet
    /\ window_length >= 2
    /\ Len(hist) = window_length + 2
    /\ n = window_length + 1
    /\ Len(arrival_intervals) = n - 1

\* task t is inside a call of insert, phi or last_arrived_at
InCall(t) == pc[t] \notin {"idle", "done"}

Waiting(t) == \E i \in 1..Len(queue) : queue[i] = t

\* no task waits for the lock while it holds a guard
NoHoldAndWait == \A t \in Tasks : Waiting(t) => ~HoldsRead(t) /\ ~HoldsWrite(t)

\* C17: phi holds no read guard while it waits for another one, and under a
\* fair lock that queues its waiters every call of phi, last_arrived_at and
\* insert ends in every interleaving: no deadlock between a phi in progress
\* and a waiting insert.
C17_EveryCallCompletes ==
    /\ []NoHoldAndWait
    /\ \A t \in Tasks : InCall(t) ~> (pc[t] = "done")

\* C17 witness: an insert that waited for phi's first guard holds the lock,
\* and phi's second request waits for it
C17_Witness ==
    \E t, u \in Tasks :
        /\ pc[t] = "phi_last" /\ Waiting(t)
        /\ HoldsWrite(u) /\ InInsert(u)

\* C18 as stated: while the window is empty the mean and the variance are 0
\* and phi(t) is +infinity when t equals last_arrived_at and 0 for every other t.
C18_InfiniteOnlyAtLast ==
    \A t \in Tasks :
        (ret[t].kind = "phi" /\ ret[t].val.consistent /\ arrival_intervals = <<>>)
            => LET v == ret[t].val
               IN  /\ FIsZero(v.mu) /\ FIsZero(v.sigma_sq)
                   /\ IF v.t = v.last THEN v.phi.kind = "inf" ELSE v.phi.kind = "zero"

\* instants before last_arrived_at, in ticks from it
EarlierOffsets == {-(TicksPerMs + 1), -TicksPerMs, -1}

\* C18, amended: while the window is empty the mean and the variance are 0 and
\* phi(t) is +infinity when t is less than 1 ms from last_arrived_at (0 whole
\* milliseconds elapsed) and 0 for every other t, so phi never rises with the
\* silence before a second heartbeat.
C18_InfiniteWithinOneMs ==
    /\ \A t \in Tasks :
          (ret[t].kind = "phi" /\ ret[t].val.consistent /\ arrival_intervals = <<>>)
              => LET v == ret[t].val
                 IN  /\ FIsZero(v.mu) /\ FIsZero(v.sigma_sq)
                     /\ IF Abs(v.t - v.last) < TicksPerMs
                        THEN v.phi.kind = "inf" ELSE v.phi.kind = "zero"
    /\ (Quiet /\ arrival_intervals = <<>>)
          => \A off \in EarlierOffsets :
                PhiAt(off).kind = IF Abs(off) < TicksPerMs THEN "inf" ELSE "zero"

\* C18 witness: after one insert phi is +infinity at an instant half a
\* millisecond after last_arrived_at
C18_Witness ==
    /\ Len(hist) = 1 /\ arrival_intervals = <<>>
    /\ ret["t1"].kind = "phi"
    /\ ret["t1"].val.t - ret["t1"].val.last = 1
    /\ ret["t1"].val.phi.kind = "inf"

====
